---- MODULE Spec2Model ----
(***************************************************************************)
(* Model of load-common-gulp-tasks (src/index.js): the tasks registered on *)
(* the gulp instance, the process-wide run state they share (exitCode,     *)
(* totalLintErrors, totalFelintErrors, lessError) and the 'exit' handler   *)
(* that defers process.exit(exitCode) to the next tick.                    *)
(*                                                                         *)
(* The host (gulp's scheduler, the file watcher) and the stream plugins    *)
(* are external: the scheduler may start any pending task of the command   *)
(* at any time, a pipeline delivers its events one per event-loop turn,    *)
(* and a stream that raised 'error' may or may not still signal 'end'.     *)
(* A callback queued with process.nextTick runs before the next event-loop *)
(* turn; until it runs only the host scheduler (reacting synchronously to  *)
(* the event being dispatched) can call into the module.                   *)
(***************************************************************************)
EXTENDS Integers, FiniteSets, Sequences, TLC

\* ---- bounds ----
MaxFiles == 1        \* files a lint pipeline delivers per invocation
MaxViolations == 2   \* jshint results of one failing file
MaxRuns == 2         \* watch-triggered runs of the designated task

VARIABLES
  cmd,                \* the task the host was asked to run
  run,                \* number of the current run (watch re-triggers)
  exitCode,           \* index.js:26
  totalLintErrors,    \* index.js:27
  totalFelintErrors,  \* index.js:28
  lessError,          \* index.js:29
  pc,                 \* position of every task's pipeline
  processed,          \* files delivered by a lint pipeline in this invocation
  tickQueue,          \* callbacks queued by process.nextTick
  exitEmits,          \* number of process.emit('exit') performed by the tasks
  exited,             \* process.exit was called
  exitStatus,         \* the status passed to process.exit
  verdict,            \* what the task logged in this invocation: pass or fail
  loggedCount,        \* the error count lintOnEnd / felintOnEnd printed
  summaryLogged,      \* "gulp '<seq>' failed" was logged
  mochaErr,           \* history: the test runner raised 'error' in this invocation
  sumInv,             \* history: violations of the failing files delivered so far
  runClean,           \* history: no failure was delivered since the run started
  prevRunFailed,      \* history: the previous run delivered a failure
  overlapped          \* history: a run was triggered while pipelines were active

vars == <<cmd, run, exitCode, totalLintErrors, totalFelintErrors, lessError,
          pc, processed, tickQueue, exitEmits, exited, exitStatus,
          verdict, loggedCount, summaryLogged,
          mochaErr, sumInv, runClean, prevRunFailed, overlapped>>

counters == <<exitCode, totalLintErrors, totalFelintErrors, lessError>>
process == <<tickQueue, exitEmits, exited, exitStatus, summaryLogged>>
runHist == <<cmd, run, prevRunFailed, overlapped>>

\* ---- the task catalogue ----
Tasks == {"lessTest", "lint", "lint-watch", "felint", "felint-watch",
          "test", "test-watch", "test-cover", "test-cover-watch"}

LintTasks == {"lint", "lint-watch"}
FelintTasks == {"felint", "felint-watch"}
TestTasks == {"test", "test-watch"}
CoverTasks == {"test-cover", "test-cover-watch"}

Ci == {"lessTest", "lint", "felint", "test-cover"}
CiWatch == {"lessTest", "lint-watch", "felint-watch", "test-cover-watch"}

Commands == {"ci", "ci-watch", "test", "watch"}
WatchCommands == {"ci-watch", "watch"}

Deps(c) ==
  CASE c = "ci" -> Ci
    [] c = "ci-watch" -> CiWatch
    [] c = "test" -> {"test"}
    [] c = "watch" -> {"test-watch"}

\* ---- the shared run state ----
BeforeEach_keepsExitCode ==
  /\ totalLintErrors' = 0
  /\ totalFelintErrors' = 0
  /\ exitCode' = exitCode
  /\ lessError' = 0

BeforeEach ==
  /\ totalLintErrors' = 0
  /\ totalFelintErrors' = 0
  /\ exitCode' = 0
  /\ lessError' = 0

\* ---- the 'exit' handler ----
ProcessEmitExit ==
  /\ exitEmits' = exitEmits + 1
  /\ tickQueue' = tickQueue + 1
  /\ UNCHANGED <<exited, exitStatus, summaryLogged>>

ExitTick ==
  /\ ~exited
  /\ tickQueue > 0
  /\ tickQueue' = tickQueue - 1
  /\ summaryLogged' = TRUE
  /\ exited' = TRUE
  /\ exitStatus' = exitCode
  /\ UNCHANGED <<counters, runHist, pc, processed, exitEmits, verdict,
                 loggedCount, mochaErr, sumInv, runClean>>

\* ---- scheduling ----
Scheduled(t) == ~exited /\ t \in Deps(cmd) /\ pc[t] = "pending"

Turn == ~exited /\ tickQueue = 0

Invoke(t, first) ==
  /\ pc' = [pc EXCEPT ![t] = first]
  /\ processed' = [processed EXCEPT ![t] = 0]
  /\ verdict' = [verdict EXCEPT ![t] = "none"]
  /\ loggedCount' = [loggedCount EXCEPT ![t] = 0]
  /\ mochaErr' = [mochaErr EXCEPT ![t] = FALSE]
  /\ sumInv' = [sumInv EXCEPT ![t] = 0]

Failure == runClean' = FALSE

Ended(t) ==
  /\ pc' = [pc EXCEPT ![t] = "done"]
  /\ processed' = [processed EXCEPT ![t] = 0]
  /\ sumInv' = [sumInv EXCEPT ![t] = 0]
  /\ mochaErr' = [mochaErr EXCEPT ![t] = FALSE]
  /\ UNCHANGED <<counters, runHist, runClean>>

\* ---- less ----
LessTestStart ==
  /\ Scheduled("lessTest")
  /\ BeforeEach
  /\ Invoke("lessTest", "running")
  /\ UNCHANGED <<runHist, process, runClean>>

LessErrorHandler ==
  /\ lessError' = 1
  /\ UNCHANGED <<exitCode, totalLintErrors, totalFelintErrors>>

LessError ==
  /\ Turn
  /\ pc["lessTest"] = "running"
  /\ LessErrorHandler
  /\ pc' = [pc EXCEPT !["lessTest"] = "errored"]
  /\ Failure
  /\ UNCHANGED <<runHist, process, processed, verdict, loggedCount, mochaErr, sumInv>>

LessOnEnd ==
  verdict' = [verdict EXCEPT !["lessTest"] = IF lessError # 0 THEN "fail" ELSE "pass"]

LessTaskEnd ==
  /\ Turn
  /\ pc["lessTest"] \in {"running", "errored"}
  /\ LessOnEnd
  /\ UNCHANGED <<process, loggedCount>>
  /\ Ended("lessTest")

\* ---- lint ----
LintStart_logsAtStart(t) ==
  /\ t \in LintTasks
  /\ Scheduled(t)
  /\ BeforeEach
  /\ pc' = [pc EXCEPT ![t] = "running"]
  /\ processed' = [processed EXCEPT ![t] = 0]
  /\ verdict' = [verdict EXCEPT ![t] = "pass"]
  /\ loggedCount' = [loggedCount EXCEPT ![t] = 0]
  /\ mochaErr' = [mochaErr EXCEPT ![t] = FALSE]
  /\ sumInv' = [sumInv EXCEPT ![t] = 0]
  /\ UNCHANGED <<runHist, process, runClean>>

LintStart(t) ==
  /\ t \in LintTasks
  /\ Scheduled(t)
  /\ BeforeEach
  /\ Invoke(t, "running")
  /\ UNCHANGED <<runHist, process, runClean>>

LintMap(n) ==
  IF n > 0
    THEN /\ totalLintErrors' = totalLintErrors + n
         /\ exitCode' = 1
         /\ UNCHANGED <<totalFelintErrors, lessError>>
    ELSE UNCHANGED counters

Delivered(t, n) ==
  /\ processed' = [processed EXCEPT ![t] = @ + 1]
  /\ sumInv' = [sumInv EXCEPT ![t] = @ + n]
  /\ IF n > 0 THEN Failure ELSE UNCHANGED runClean
  /\ UNCHANGED <<runHist, process, pc, verdict, loggedCount, mochaErr>>

LintFile(t, n) ==
  /\ t \in LintTasks
  /\ Turn
  /\ pc[t] = "running"
  /\ processed[t] < MaxFiles
  /\ LintMap(n)
  /\ Delivered(t, n)

LintOnEnd(t) ==
  IF exitCode # 0
    THEN /\ loggedCount' = [loggedCount EXCEPT ![t] = totalLintErrors]
         /\ verdict' = [verdict EXCEPT ![t] = "fail"]
    ELSE /\ loggedCount' = [loggedCount EXCEPT ![t] = 0]
         /\ verdict' = [verdict EXCEPT ![t] = "pass"]

LintTaskEnd ==
  /\ Turn
  /\ pc["lint"] = "running"
  /\ LintOnEnd("lint")
  /\ IF exitCode # 0 THEN ProcessEmitExit ELSE UNCHANGED process
  /\ Ended("lint")

LintWatchTaskEnd_emits ==
  /\ Turn
  /\ pc["lint-watch"] = "running"
  /\ LintOnEnd("lint-watch")
  /\ IF exitCode # 0 THEN ProcessEmitExit ELSE UNCHANGED process
  /\ Ended("lint-watch")

LintWatchTaskEnd ==
  /\ Turn
  /\ pc["lint-watch"] = "running"
  /\ LintOnEnd("lint-watch")
  /\ UNCHANGED process
  /\ Ended("lint-watch")

\* ---- felint ----
FelintStart(t) ==
  /\ t \in FelintTasks
  /\ Scheduled(t)
  /\ BeforeEach
  /\ Invoke(t, "running")
  /\ UNCHANGED <<runHist, process, runClean>>

FelintMap(n) ==
  IF n > 0
    THEN /\ totalFelintErrors' = totalFelintErrors + n
         /\ exitCode' = 1
         /\ UNCHANGED <<totalLintErrors, lessError>>
    ELSE UNCHANGED counters

FelintFile(t, n) ==
  /\ t \in FelintTasks
  /\ Turn
  /\ pc[t] = "running"
  /\ processed[t] < MaxFiles
  /\ FelintMap(n)
  /\ Delivered(t, n)

FelintOnEnd(t) ==
  IF exitCode # 0
    THEN /\ loggedCount' = [loggedCount EXCEPT ![t] = totalFelintErrors]
         /\ verdict' = [verdict EXCEPT ![t] = "fail"]
    ELSE /\ loggedCount' = [loggedCount EXCEPT ![t] = 0]
         /\ verdict' = [verdict EXCEPT ![t] = "pass"]

FelintTaskEnd ==
  /\ Turn
  /\ pc["felint"] = "running"
  /\ FelintOnEnd("felint")
  /\ IF exitCode # 0 THEN ProcessEmitExit ELSE UNCHANGED process
  /\ Ended("felint")

FelintWatchTaskEnd ==
  /\ Turn
  /\ pc["felint-watch"] = "running"
  /\ FelintOnEnd("felint-watch")
  /\ UNCHANGED process
  /\ Ended("felint-watch")

\* ---- test, cover ----
TestErrorHandler_noFlag(t) ==
  /\ verdict' = [verdict EXCEPT ![t] = "fail"]
  /\ UNCHANGED counters

TestErrorHandler(t) ==
  /\ verdict' = [verdict EXCEPT ![t] = "fail"]
  /\ exitCode' = 1
  /\ UNCHANGED <<totalLintErrors, totalFelintErrors, lessError>>

CoverStart_startsMocha(t) ==
  /\ t \in CoverTasks
  /\ Scheduled(t)
  /\ BeforeEach
  /\ Invoke(t, "mocha")
  /\ UNCHANGED <<runHist, process, runClean>>

CoverStart(t) ==
  /\ t \in CoverTasks
  /\ Scheduled(t)
  /\ BeforeEach
  /\ Invoke(t, "instrument")
  /\ UNCHANGED <<runHist, process, runClean>>

Stage(t, next) ==
  /\ pc' = [pc EXCEPT ![t] = next]
  /\ UNCHANGED <<counters, runHist, process, processed, verdict, loggedCount,
                 mochaErr, sumInv, runClean>>

CoverEnd(t) ==
  /\ t \in CoverTasks
  /\ Turn
  /\ pc[t] = "instrument"
  /\ Stage(t, "mocha")

Raised(t, next, byMocha) ==
  /\ pc' = [pc EXCEPT ![t] = next]
  /\ mochaErr' = [mochaErr EXCEPT ![t] = @ \/ byMocha]
  /\ Failure
  /\ UNCHANGED <<runHist, processed, loggedCount, sumInv>>

TestCoverMochaError ==
  /\ Turn
  /\ pc["test-cover"] = "mocha"
  /\ TestErrorHandler("test-cover")
  /\ ProcessEmitExit
  /\ Raised("test-cover", "mochaErrored", TRUE)

TestCoverWatchMochaError ==
  /\ Turn
  /\ pc["test-cover-watch"] = "mocha"
  /\ TestErrorHandler("test-cover-watch")
  /\ UNCHANGED process
  /\ Raised("test-cover-watch", "mochaErrored", TRUE)

MochaThrough(t) ==
  /\ t \in CoverTasks
  /\ Turn
  /\ pc[t] \in {"mocha", "mochaErrored"}
  /\ Stage(t, "enforce")

TestCoverEnforcerError ==
  /\ Turn
  /\ pc["test-cover"] = "enforce"
  /\ TestErrorHandler("test-cover")
  /\ ProcessEmitExit
  /\ Raised("test-cover", "enforceErrored", FALSE)

TestCoverWatchEnforcerError ==
  /\ Turn
  /\ pc["test-cover-watch"] = "enforce"
  /\ TestErrorHandler("test-cover-watch")
  /\ UNCHANGED process
  /\ Raised("test-cover-watch", "enforceErrored", FALSE)

EnforcerEnd(t) ==
  /\ t \in CoverTasks
  /\ Turn
  /\ pc[t] \in {"enforce", "enforceErrored"}
  /\ Ended(t)
  /\ UNCHANGED <<process, verdict, loggedCount>>

TestStart(t) ==
  /\ t \in TestTasks
  /\ Scheduled(t)
  /\ Invoke(t, "running")
  /\ UNCHANGED <<counters, runHist, process, runClean>>

TestMochaError ==
  /\ Turn
  /\ pc["test"] = "running"
  /\ TestErrorHandler("test")
  /\ ProcessEmitExit
  /\ Raised("test", "errored", TRUE)

TestWatchMochaError ==
  /\ Turn
  /\ pc["test-watch"] = "running"
  /\ TestErrorHandler("test-watch")
  /\ UNCHANGED process
  /\ Raised("test-watch", "errored", TRUE)

TestEnd(t) ==
  /\ t \in TestTasks
  /\ Turn
  /\ pc[t] \in {"running", "errored"}
  /\ Ended(t)
  /\ UNCHANGED <<process, verdict, loggedCount>>

\* ---- watch ----
WatchTrigger ==
  /\ Turn
  /\ cmd \in WatchCommands
  /\ run < MaxRuns
  /\ \E t \in Deps(cmd) : pc[t] = "done"
  /\ run' = run + 1
  /\ pc' = [t \in Tasks |-> IF pc[t] = "done" THEN "pending" ELSE pc[t]]
  /\ verdict' = [t \in Tasks |-> IF pc[t] = "done" THEN "none" ELSE verdict[t]]
  /\ loggedCount' = [t \in Tasks |-> IF pc[t] = "done" THEN 0 ELSE loggedCount[t]]
  /\ processed' = [t \in Tasks |-> IF pc[t] = "done" THEN 0 ELSE processed[t]]
  /\ mochaErr' = [t \in Tasks |-> IF pc[t] = "done" THEN FALSE ELSE mochaErr[t]]
  /\ sumInv' = [t \in Tasks |-> IF pc[t] = "done" THEN 0 ELSE sumInv[t]]
  /\ overlapped' = (overlapped \/ \E t \in Deps(cmd) : pc[t] # "done")
  /\ prevRunFailed' = ~runClean
  /\ runClean' = TRUE
  /\ UNCHANGED <<cmd, counters, process>>

\* ---- the state machine ----
Init ==
  /\ cmd \in Commands
  /\ run = 1
  /\ exitCode = 0
  /\ totalLintErrors = 0
  /\ totalFelintErrors = 0
  /\ lessError = 0
  /\ pc = [t \in Tasks |-> IF t \in Deps(cmd) THEN "pending" ELSE "idle"]
  /\ processed = [t \in Tasks |-> 0]
  /\ tickQueue = 0
  /\ exitEmits = 0
  /\ exited = FALSE
  /\ exitStatus = 0
  /\ verdict = [t \in Tasks |-> "none"]
  /\ loggedCount = [t \in Tasks |-> 0]
  /\ summaryLogged = FALSE
  /\ mochaErr = [t \in Tasks |-> FALSE]
  /\ sumInv = [t \in Tasks |-> 0]
  /\ runClean = TRUE
  /\ prevRunFailed = FALSE
  /\ overlapped = FALSE

Next ==
  \/ LessTestStart
  \/ LessError
  \/ LessTaskEnd
  \/ \E t \in LintTasks : LintStart(t)
  \/ \E t \in LintTasks, n \in 0..MaxViolations : LintFile(t, n)
  \/ LintTaskEnd
  \/ LintWatchTaskEnd
  \/ \E t \in FelintTasks : FelintStart(t)
  \/ \E t \in FelintTasks, n \in 0..MaxViolations : FelintFile(t, n)
  \/ FelintTaskEnd
  \/ FelintWatchTaskEnd
  \/ \E t \in CoverTasks : CoverStart(t)
  \/ \E t \in CoverTasks : CoverEnd(t)
  \/ TestCoverMochaError
  \/ TestCoverWatchMochaError
  \/ \E t \in CoverTasks : MochaThrough(t)
  \/ TestCoverEnforcerError
  \/ TestCoverWatchEnforcerError
  \/ \E t \in CoverTasks : EnforcerEnd(t)
  \/ \E t \in TestTasks : TestStart(t)
  \/ TestMochaError
  \/ TestWatchMochaError
  \/ \E t \in TestTasks : TestEnd(t)
  \/ WatchTrigger
  \/ ExitTick

Spec == Init /\ [][Next]_vars

TypeOK ==
  /\ cmd \in Commands
  /\ run \in 1..MaxRuns
  /\ exitCode \in {0, 1}
  /\ lessError \in {0, 1}
  /\ totalLintErrors \in 0..(MaxFiles * MaxViolations)
  /\ totalFelintErrors \in 0..(MaxFiles * MaxViolations)
  /\ tickQueue \in {0, 1}
  /\ exitEmits \in {0, 1}
  /\ exited \in BOOLEAN
  /\ exitStatus \in {0, 1}
  /\ pc \in [Tasks -> {"idle", "pending", "running", "errored", "instrument",
                       "mocha", "mochaErrored", "enforce", "enforceErrored", "done"}]
  /\ verdict \in [Tasks -> {"none", "pass", "fail"}]

\* ---- properties ----
AllDone == \A t \in Deps(cmd) : pc[t] = "done"

Started(t) == pc[t] = "pending" /\ pc'[t] # "pending"

PipelineEnded(t) == pc[t] = "running" /\ pc'[t] = "done"

PipelineFailed(t) ==
  /\ pc'[t] \in {"errored", "mochaErrored", "enforceErrored"}
  /\ pc'[t] # pc[t]

\* C1: once the four dependencies of 'ci' have finished, the run's verdict is
\* pass (exitCode = 0, no 'exit' emitted) iff no dependency delivered a failure.
C1_CiPassesIffAllSucceed ==
  (cmd = "ci" /\ AllDone) => ((exitCode = 0 /\ exitEmits = 0) <=> runClean)

\* C2: in watch mode no 'exit' is ever emitted, no process exit is scheduled
\* and the process never exits, whatever failures the runs deliver.
C2_WatchNeverTerminates ==
  cmd \in WatchCommands => (exitEmits = 0 /\ tickQueue = 0 /\ ~exited)

C2_Witness ==
  /\ cmd = "ci-watch"
  /\ run = 2
  /\ prevRunFailed
  /\ verdict["lint-watch"] = "fail"
  /\ verdict["test-cover-watch"] = "fail"
  /\ exitCode = 1

\* C3: every invocation of every leaf task starts with the run state
\* re-initialized: all counters zero and exitCode 0 right after the task starts.
C3_EveryStartResets ==
  [][\A t \in Tasks :
       Started(t) => /\ exitCode' = 0
                     /\ totalLintErrors' = 0
                     /\ totalFelintErrors' = 0
                     /\ lessError' = 0]_vars

\* C4: in consecutive non-overlapping runs of 'ci-watch', a run whose pipelines
\* deliver no failure logs a pass for every category and no error count,
\* whatever the previous run left behind.
C4_CleanRunLogsPass ==
  (cmd = "ci-watch" /\ ~overlapped /\ runClean) =>
    \A t \in CiWatch : verdict[t] # "fail" /\ loggedCount[t] = 0

C4_Witness ==
  /\ cmd = "ci-watch"
  /\ run = 2
  /\ prevRunFailed
  /\ ~overlapped
  /\ runClean
  /\ AllDone
  /\ \A t \in {"lessTest", "lint-watch", "felint-watch"} : verdict[t] = "pass"

\* C5: when a lint (felint) pipeline signals end, totalLintErrors
\* (totalFelintErrors) is the sum of the violation counts of the failing files
\* that pipeline delivered in this invocation.
C5_CountIsSumOfFailingFiles ==
  [][/\ \A t \in LintTasks : PipelineEnded(t) => totalLintErrors = sumInv[t]
     /\ \A t \in FelintTasks : PipelineEnded(t) => totalFelintErrors = sumInv[t]]_vars

\* C6: in normal mode, when the 'lint' pipeline ends after delivering a failing
\* file, the lint verdict is fail, the failure flag is set and 'exit' is emitted.
C6_FailingLintTerminates ==
  [][(PipelineEnded("lint") /\ sumInv["lint"] > 0) =>
       /\ verdict'["lint"] = "fail"
       /\ exitCode' = 1
       /\ exitEmits' = exitEmits + 1
       /\ tickQueue' = tickQueue + 1]_vars

\* C7: a normal-mode run in which some category failed emits 'exit' exactly
\* once by the time the run is over.
C7_ExactlyOneTermination ==
  (cmd \in {"ci", "test"} /\ (AllDone \/ exited) /\ ~runClean) => exitEmits = 1

\* C8: every process exit performed by the deferred step passes status 1 and
\* comes after a failure message and the "failed" summary were logged.
C8_ExitStatusNonZero ==
  exited => /\ exitStatus = 1
            /\ summaryLogged
            /\ \E t \in Tasks : verdict[t] = "fail"

\* C9: a pipeline-level failure (style compiler, test runner, coverage
\* enforcer) sets the failure flag exitCode in the step that handles the error.
C9_PipelineFailureSetsFlag ==
  [][\A t \in Tasks : PipelineFailed(t) => exitCode' = 1]_vars

\* C10: an enforcer error in a run whose test runner raised no error sets
\* exitCode to 1; 'test-cover' then emits 'exit', 'test-cover-watch' does not.
C10_EnforcerErrorFailsRun ==
  [][\A t \in CoverTasks :
       (pc[t] = "enforce" /\ pc'[t] = "enforceErrored" /\ ~mochaErr[t]) =>
         /\ exitCode' = 1
         /\ verdict'[t] = "fail"
         /\ t = "test-cover" => (exitEmits' = exitEmits + 1 /\ tickQueue' = tickQueue + 1)
         /\ t = "test-cover-watch" => (exitEmits' = exitEmits /\ tickQueue' = tickQueue)]_vars

C10_Witness ==
  /\ pc["test-cover"] = "enforceErrored"
  /\ ~mochaErr["test-cover"]
  /\ exitCode = 1
  /\ exitEmits = 1
  /\ tickQueue = 1

\* C11: within a run, once one of its pipelines has delivered a failure, no
\* error counter and not the failure flag ever decreases: they are reset only
\* at the start of the run, whatever order the dependencies are started in.
C11_CountersMonotonicInRun ==
  [][(run' = run /\ ~runClean) =>
       /\ exitCode' >= exitCode
       /\ totalLintErrors' >= totalLintErrors
       /\ totalFelintErrors' >= totalFelintErrors
       /\ lessError' >= lessError]_vars

\* C12: the verdict lintOnEnd (felintOnEnd) logs is fail iff the category's own
\* count totalLintErrors (totalFelintErrors) is positive at that moment.
C12_VerdictFromOwnCount ==
  [][/\ \A t \in LintTasks :
          PipelineEnded(t) => (verdict'[t] = "fail" <=> totalLintErrors > 0)
     /\ \A t \in FelintTasks :
          PipelineEnded(t) => (verdict'[t] = "fail" <=> totalFelintErrors > 0)]_vars

\* A lint pipeline of an earlier run that is still active in a later run: its
\* failures were delivered before the later run was triggered.
EarlierRunActive(t) ==
  /\ cmd = "ci-watch"
  /\ overlapped
  /\ runClean
  /\ pc[t] = "running"
  /\ sumInv[t] > 0

\* C13: when a later 'ci-watch' run starts while a pipeline of an earlier run
\* is still active, the start of the later run's tasks does not modify the
\* counters and the flag, and the earlier pipeline logs its own count and a fail.
C13_OverlappingRunsIsolated ==
  [][\A t \in {"lint-watch", "felint-watch"} :
       EarlierRunActive(t) =>
         /\ (\E u \in Tasks : Started(u)) => UNCHANGED counters
         /\ PipelineEnded(t) => (verdict'[t] = "fail" /\ loggedCount'[t] = sumInv[t])]_vars

\* C14: lessOnEnd, lintOnEnd and felintOnEnd log a verdict only in the step in
\* which their own pipeline signals end, and 'exit' is emitted only in a step
\* in which some pipeline ends or raises a pipeline-level error.
C14_VerdictOnlyAtOwnEnd ==
  [][/\ \A t \in {"lessTest"} \cup LintTasks \cup FelintTasks :
          (verdict'[t] # verdict[t] /\ verdict'[t] \in {"pass", "fail"}) =>
            (pc[t] \in {"running", "errored"} /\ pc'[t] = "done")
     /\ exitEmits' > exitEmits =>
          \E t \in Tasks : PipelineEnded(t) \/ PipelineFailed(t)]_vars

C14_Witness ==
  /\ cmd = "ci"
  /\ pc["lint"] = "done"
  /\ verdict["lint"] = "fail"
  /\ exitEmits = 1
  /\ pc["felint"] = "running"
  /\ verdict["felint"] = "none"
  /\ pc["lessTest"] = "done"
  /\ verdict["lessTest"] = "pass"

\* The first completion signal the host receives from a task: the end of the
\* stream the task function returned, or the call of its callback.
Reported(t) ==
  IF t \in CoverTasks
    THEN pc[t] \in {"mocha", "mochaErrored", "enforce", "enforceErrored", "done"}
    ELSE pc[t] = "done"

ComboReported ==
  /\ cmd \in {"ci", "ci-watch"}
  /\ \A t \in Deps(cmd) : Reported(t)

\* C15: once every dependency of 'ci' / 'ci-watch' has reported completion,
\* no stage of that run changes exitCode any more.
C15_FlagFinalAfterCompletion ==
  [][(ComboReported /\ run' = run) => exitCode' = exitCode]_vars

\* C16: a 'test-cover' / 'test-cover-watch' invocation resets the run state
\* first, starts the test runner only at the end of instrumentation, reaches
\* the enforcer only from the test runner, and calls back only from the enforcer.
C16_CoverStagesOrdered ==
  [][\A t \in CoverTasks :
       /\ Started(t) => (pc'[t] = "instrument" /\ exitCode' = 0
                         /\ totalLintErrors' = 0 /\ totalFelintErrors' = 0
                         /\ lessError' = 0)
       /\ (pc'[t] = "instrument" /\ pc[t] # "instrument") => pc[t] = "pending"
       /\ (pc'[t] = "mocha" /\ pc[t] # "mocha") => pc[t] = "instrument"
       /\ (pc'[t] = "mochaErrored" /\ pc[t] # "mochaErrored") => pc[t] = "mocha"
       /\ (pc'[t] = "enforce" /\ pc[t] # "enforce") => pc[t] \in {"mocha", "mochaErrored"}
       /\ (pc'[t] = "enforceErrored" /\ pc[t] # "enforceErrored") => pc[t] = "enforce"
       /\ (pc'[t] = "done" /\ pc[t] # "done") => pc[t] \in {"enforce", "enforceErrored"}]_vars

C16_Witness ==
  /\ cmd = "ci-watch"
  /\ run = 2
  /\ pc["test-cover-watch"] = "done"
  /\ verdict["test-cover-watch"] = "none"
  /\ prevRunFailed
====
